---- MODULE Spec2Model ----
(***************************************************************************)
(* Model of the superw wallet backend (src/server/routes.ts,               *)
(* src/server/storage.ts, src/shared/locales.ts): the XP balance ledger    *)
(* (POST /api/payments/send, POST /api/payments/deposit), the endpoints    *)
(* next to it, and the tax-refund workflow.                                *)
(*                                                                         *)
(* Every request handler is an async function; it is split at each await   *)
(* on the database, so that handlers of overlapping requests interleave    *)
(* exactly where the event loop can interleave them.  Amounts are whole    *)
(* XP units.                                                               *)
(***************************************************************************)
EXTENDS Integers, Sequences, FiniteSets, Bags, TLC

\* ---------------------------------------------------------------- bounds
NumReqs == 2           \* requests issued in one behaviour
MaxAmount == 2         \* largest amount in a body, largest start-up balance

\* ------------------------------------------------------- program constants
WalletAddress == "0xb8c1f75bb7550bb51039c64e92c78d15ad9dbbe1"
OtherAddress == "0xother"
SendDefaultBalance == 1
DepositDefaultBalance == 0
AuthUserId == 1

\* ------------------------------------------------------------ JSON values
Undef == [t |-> "undefined", v |-> 0]
Num(n) == [t |-> "number", v |-> n]

\* The number NaN, which parseFloat returns for text that starts with no
\* number and which a numeric column stores as 'NaN'; written as an
\* integer below every amount and every balance.
NaN == -1000000

\* The decimal string of the number n; Str(NaN) is the string "NaN".
Str(n) == [t |-> "string", v |-> n]

\* A non-empty string that is not a number, such as "abc".
Text == [t |-> "text", v |-> 0]

\* JavaScript truthiness of a body field: undefined and the number 0 are
\* falsy, a non-empty string is truthy.
Truthy(x) == \/ x.t \in {"string", "text"}
             \/ x.t = "number" /\ x.v # 0

\* parseFloat(x) is NaN: x is undefined, a string that starts with no
\* number, or NaN or "NaN" itself.
NotANumber(x) == x.t \in {"undefined", "text"} \/ x.v = NaN

\* parseFloat of a number or of a numeric string is its numeric value,
\* of anything else NaN.
parseFloat(x) == IF NotANumber(x) THEN NaN ELSE x.v

\* amount.toString(): a string is itself, a number gives its decimal
\* string.
toString(x) == IF x.t = "text" THEN x ELSE Str(x.v)

\* The operators <, <=, + and - of JavaScript numbers: a comparison with
\* NaN is false, a sum or difference with NaN is NaN.
Less(a, b) == a # NaN /\ b # NaN /\ a < b

LessEq(a, b) == a # NaN /\ b # NaN /\ a <= b

Plus(a, b) == IF a = NaN \/ b = NaN THEN NaN ELSE a + b

Minus(a, b) == IF a = NaN \/ b = NaN THEN NaN ELSE a - b

\* A missing (undefined) text field, a missing hash, a null timestamp.
Missing == "undefined"
NoHash == 0
Null == 0

\* The amounts of request bodies: missing, a number, the decimal strings
\* "0" and "1", the string "NaN", or text that is no number.
AmountInputs == {Undef} \cup {Num(n) : n \in (-1)..MaxAmount}
                        \cup {Str(n) : n \in 0..1}
                        \cup {Str(NaN), Text}

VARIABLES
    wallet_balances,  \* rows of table wallet_balances, in insertion order
    transactions,     \* rows of table transactions, in insertion order
    tax_refunds,      \* rows of table tax_refunds, in insertion order
    currentBalance,   \* the module-level variable update-balance assigns
    now,              \* the database clock (NOW(), new Date())
    handlers,         \* the bag of handlers suspended at an await
    resp,             \* the response sent last
    started,          \* number of requests received so far
    log,              \* the ledger requests answered so far, in order
    initial           \* table wallet_balances as it was at start-up

vars == <<wallet_balances, transactions, tax_refunds, currentBalance, now,
          handlers, resp, started, log, initial>>

dbvars == <<wallet_balances, transactions, tax_refunds>>

\* --------------------------------------------------------------- tables
\* walletBalances: address is unique, balance numeric, asset_type text.
WalletRow(address, balance, assetType, at) ==
    [address |-> address, balance |-> balance, assetType |-> assetType,
     updatedAt |-> at]

\* SELECT balance FROM wallet_balances WHERE address = $1
SelectBalance(rows, address) ==
    SelectSeq(rows, LAMBDA row : row.address = address)

\* The UPDATE without its WHERE clause.
UpdateEveryRow(rows, address, balance, at) ==
    [i \in 1..Len(rows) |->
        [rows[i] EXCEPT !.balance = balance, !.updatedAt = at]]

\* UPDATE wallet_balances SET balance = $1, updated_at = NOW()
\*  WHERE address = $2: rewrites every matching row, none if none matches.
UpdateBalanceRows(rows, address, balance, at) ==
    [i \in 1..Len(rows) |->
        IF rows[i].address = address
        THEN [rows[i] EXCEPT !.balance = balance, !.updatedAt = at]
        ELSE rows[i]]

\* The unique constraint on wallet_balances.address.
AddressTaken(rows, address) ==
    \E i \in 1..Len(rows) : rows[i].address = address

\* A table transactions without the unique constraint.
HashNeverTaken(txs, txHash) == FALSE

\* The unique constraint on transactions.tx_hash.
HashTaken(txs, txHash) ==
    \E i \in 1..Len(txs) : txs[i].txHash = txHash

\* A row of table transactions; a numeric column holds the value of the
\* decimal string it was given.
TxRow(userId, fromAddress, toAddress, assetType, amount, txHash, status, type) ==
    [userId |-> userId, fromAddress |-> fromAddress, toAddress |-> toAddress,
     assetType |-> assetType, amount |-> amount.v, txHash |-> txHash,
     status |-> status, transactionType |-> type]

\* insertTransactionSchema: from_address, tx_hash and transaction_type are
\* required text, amount is a string.
ValidInsertTransaction(fromAddress, txHash, transactionType, amount) ==
    /\ fromAddress # Missing
    /\ txHash # NoHash
    /\ transactionType # Missing
    /\ amount.t \in {"string", "text"}

\* The input of a numeric column: a decimal string or 'NaN' is stored,
\* any other text is refused with an error.
InvalidNumeric(amount) == amount.t = "text"

\* -------------------------------------------------------------- handlers
\* The fields of a tax-refund body the calculator reads; present says
\* whether taxYear and bankAccount are given.
NoTaxBody == [refundType |-> Missing, grossIncome |-> Undef,
              taxPaid |-> Undef, deductions |-> Undef, present |-> FALSE]

\* What the tax calculator computed: the handler's constants taxRate (in
\* percent), taxableIncome, calculatedTax and the refund amount, with nan
\* telling that taxableIncome and calculatedTax are NaN and amountNaN
\* that the refund amount is, and the eligibility score and processing
\* time of an estimate.
NoTax == [taxRate |-> 0, taxableIncome |-> 0, calculatedTax |-> 0,
          amount |-> 0, nan |-> FALSE, amountNaN |-> FALSE,
          eligibilityScore |-> 0, processingTime |-> ""]

NoBody == [op |-> "none", toAddress |-> Missing, amount |-> Undef,
           assetType |-> Missing, txHash |-> NoHash, address |-> Missing,
           id |-> 0, action |-> Missing, status |-> Missing,
           tax |-> NoTaxBody, userId |-> 0]

\* rows, currentBalance, newBalance and txHash are the handler's constants
\* of the same names (rows is balanceQuery.rows.length); wrote, delta and
\* tx record what the handler's own storage writes did: whether a balance
\* row was written, by how much the persisted balance changed, and the
\* index of the transaction row inserted (0 if none).
NoLocal == [rows |-> 0, currentBalance |-> 0, newBalance |-> 0,
            txHash |-> NoHash, wrote |-> FALSE, delta |-> 0, tx |-> 0,
            endpoints |-> <<>>, next |-> 0, attempts |-> <<>>,
            response |-> "none", lastError |-> "null", at |-> 0]

\* A handler suspended at the await named pc.
Frame(label, b, loc) == [pc |-> label, body |-> b, local |-> loc]

Suspended == BagToSet(handlers)

\* A response: status and message, and the balances it reports (the keys
\* currentBalance or previousBalance, requestedAmount, newBalance).  The
\* other fields are not sent: they record, for the request answered, its
\* endpoint and amount, whether the balance ledger handled it, the number
\* of rows and the balance its handler read, and what its storage writes
\* did.
NoResp == [status |-> 0, message |-> "", currentBalance |-> Undef,
           requestedAmount |-> Undef, newBalance |-> Undef,
           op |-> "none", amount |-> 0, ledger |-> FALSE, rows |-> 0,
           read |-> 0, wrote |-> FALSE, delta |-> 0, tx |-> 0,
           body |-> NoTaxBody, tax |-> NoTax, userId |-> 0, list |-> <<>>,
           txHash |-> <<>>, action |-> Missing,
           endpoints |-> <<>>, result |-> Missing, lastError |-> "null"]

Reply(status, message) ==
    [NoResp EXCEPT !.status = status, !.message = message]

\* The hashes drawn so far are 1, 2, ...: a draw of the random generator
\* is one of them again or the next one.
MaxHash(S) ==
    IF S = {} THEN NoHash ELSE CHOOSE x \in S : \A y \in S : y <= x

Draws ==
    1..(MaxHash({transactions[i].txHash : i \in 1..Len(transactions)}
                \cup {f.local.txHash : f \in Suspended}
                \cup {f.body.txHash : f \in Suspended}) + 1)

\* A request is received and its handler runs up to its first await,
\* where it stands at label.
Receive(b, label) ==
    /\ started < NumReqs
    /\ started' = started + 1
    /\ handlers' = handlers (+) SetToBag({Frame(label, b, NoLocal)})
    /\ UNCHANGED <<resp, log, initial>>

\* A request is received and answered before any await.
Reject(response) ==
    /\ started < NumReqs
    /\ started' = started + 1
    /\ resp' = response
    /\ UNCHANGED <<handlers, log, initial>>

\* Handler f runs on to its next await, at label, with locals loc.
Goto(f, label, loc) ==
    /\ handlers' = (handlers (-) SetToBag({f}))
                     (+) SetToBag({Frame(label, f.body, loc)})
    /\ UNCHANGED <<resp, started, log, initial>>

\* The handlers of the balance ledger stand at these labels.
LedgerLabels == {"send_select", "send_insert", "send_update",
                 "deposit_select", "deposit_write", "deposit_insert"}

\* The response with the record of what its handler did.
Done(f, response, loc) ==
    [response EXCEPT !.op = f.body.op, !.amount = parseFloat(f.body.amount),
                     !.ledger = f.pc \in LedgerLabels,
                     !.rows = loc.rows, !.read = loc.currentBalance,
                     !.wrote = loc.wrote, !.delta = loc.delta, !.tx = loc.tx]

\* The response of handler f is sent and the handler returns.
Finish(f, response, loc) ==
    /\ handlers' = handlers (-) SetToBag({f})
    /\ resp' = Done(f, response, loc)
    /\ log' = IF f.pc \in LedgerLabels
              THEN Append(log, [op |-> f.body.op,
                                amount |-> parseFloat(f.body.amount),
                                status |-> response.status])
              ELSE log
    /\ UNCHANGED <<started, initial>>

\* ------------------------------------------------- POST /api/payments/send
\* The bodies of a send request.  The XP branch reads toAddress, amount and
\* assetType only and converts the amount with toString; the other branch
\* hands the whole body to the insert schema.
SendBodies ==
    {[NoBody EXCEPT !.op = "send", !.toAddress = toAddress,
                    !.amount = amount, !.assetType = assetType,
                    !.txHash = txHash] :
        toAddress \in {Missing, OtherAddress},
        amount \in AmountInputs,
        assetType \in {Missing, "XP", "BTC"},
        txHash \in {NoHash} \cup Draws}

\* insertTransactionSchema.parse of lines 441-445 on the body.  A body
\* that carries a txHash carries fromAddress and transactionType too.
BodyParses(b) ==
    ValidInsertTransaction(
        IF b.txHash = NoHash THEN Missing ELSE WalletAddress,
        b.txHash,
        IF b.txHash = NoHash THEN Missing ELSE "send",
        b.amount)

\* Lines 378-384: the validation of a send body; the message of the 400
\* response, or "" if the body passes.
SendInvalid(b) ==
    IF b.toAddress = Missing \/ ~Truthy(b.amount) \/ b.assetType = Missing
    THEN "Missing required transaction parameters"
    ELSE IF LessEq(parseFloat(b.amount), 0)
    THEN "Invalid transaction amount"
    ELSE ""

\* Lines 375-394 and 441-447: validation; then, for XP, the balance query
\* is issued and, for another asset type, the body is parsed and the
\* transaction insert is issued.
SendReceive ==
    \E b \in SendBodies :
        /\ b.txHash # NoHash => b.assetType = "BTC"
        /\ IF SendInvalid(b) # ""
           THEN Reject(Reply(400, SendInvalid(b)))
           ELSE IF b.assetType = "XP"
           THEN Receive(b, "send_select")
           ELSE IF BodyParses(b)
           THEN Receive(b, "send_other")
           ELSE Reject(Reply(400, "Payment failed"))
        /\ UNCHANGED <<dbvars, currentBalance, now>>

\* The check with <= in place of <.
InsufficientAtEqual(balance, amount) == LessEq(balance, parseFloat(amount))

\* The sufficiency check of lines 400-407.
Insufficient(balance, amount) == Less(balance, parseFloat(amount))

\* The balance the send handler takes as current (lines 396-398).
SendCurrentBalance(rows) ==
    IF Len(rows) > 0 THEN rows[1].balance ELSE SendDefaultBalance

\* Lines 391-423: the balance query returns; sufficiency check; the hash
\* is drawn and the transaction insert is issued.
SendSelect(f) ==
    /\ f.pc = "send_select"
    /\ LET rows == SelectBalance(wallet_balances, WalletAddress)
           current == SendCurrentBalance(rows)
           amount == f.body.amount
           loc == [f.local EXCEPT !.rows = Len(rows),
                                  !.currentBalance = current]
       IN IF Insufficient(current, amount)
          THEN Finish(f, [Reply(400, "Insufficient balance for withdrawal")
                          EXCEPT !.currentBalance = Str(current),
                                 !.requestedAmount = toString(amount)],
                      loc)
          ELSE \E txHash \in Draws :
                  Goto(f, "send_insert", [loc EXCEPT !.txHash = txHash])
    /\ UNCHANGED <<dbvars, currentBalance, now>>

\* Line 426.
SendNewBalance(current, amount) == Minus(current, parseFloat(amount))

\* Lines 423-430: storage.createTransaction returns, or throws on the
\* unique tx_hash or on an amount the numeric column refuses; the new
\* balance is computed and the UPDATE is issued.
SendInsert(f) ==
    /\ f.pc = "send_insert"
    /\ IF \/ HashTaken(transactions, f.local.txHash)
          \/ InvalidNumeric(toString(f.body.amount))
       THEN /\ Finish(f, Reply(400, "Payment failed"), f.local)
            /\ UNCHANGED transactions
       ELSE /\ transactions' = Append(transactions,
                TxRow(AuthUserId, WalletAddress, f.body.toAddress,
                      f.body.assetType, toString(f.body.amount),
                      f.local.txHash, "completed", "send"))
            /\ Goto(f, "send_update", [f.local EXCEPT
                 !.tx = Len(transactions) + 1,
                 !.newBalance = SendNewBalance(f.local.currentBalance,
                                               f.body.amount)])
    /\ UNCHANGED <<wallet_balances, tax_refunds, currentBalance, now>>

\* The change of the persisted balance of address between two states of
\* the table: the sum over its rows of new value minus old value.
RECURSIVE RowsDelta(_, _, _)
RowsDelta(old, new, address) ==
    IF Len(old) = 0 THEN 0
    ELSE Plus(IF Head(old).address = address
              THEN Minus(Head(new).balance, Head(old).balance) ELSE 0,
              RowsDelta(Tail(old), Tail(new), address))

\* Lines 427-438: the UPDATE runs and the response is sent.
SendUpdate(f) ==
    /\ f.pc = "send_update"
    /\ wallet_balances' = UpdateBalanceRows(wallet_balances, WalletAddress,
                                            f.local.newBalance, now + 1)
    /\ now' = now + 1
    /\ Finish(f, [Reply(200,
                   "Withdrawal completed successfully - balance updated")
                  EXCEPT !.currentBalance = Str(f.local.currentBalance),
                         !.newBalance = Str(f.local.newBalance)],
              [f.local EXCEPT
                 !.wrote = AddressTaken(wallet_balances, WalletAddress),
                 !.delta = RowsDelta(wallet_balances, wallet_balances',
                                     WalletAddress)])
    /\ UNCHANGED <<transactions, tax_refunds, currentBalance>>

\* Lines 447-448: another asset type; storage.createTransaction inserts
\* the body, with userId and status pending, or throws on the unique
\* tx_hash or on an amount the numeric column refuses.
SendOther(f) ==
    /\ f.pc = "send_other"
    /\ IF \/ HashTaken(transactions, f.body.txHash)
          \/ InvalidNumeric(f.body.amount)
       THEN /\ Finish(f, Reply(400, "Payment failed"), f.local)
            /\ UNCHANGED transactions
       ELSE /\ transactions' = Append(transactions,
                TxRow(AuthUserId, WalletAddress, f.body.toAddress,
                      f.body.assetType, f.body.amount, f.body.txHash,
                      "pending", "send"))
            /\ Finish(f, Reply(200, ""),
                      [f.local EXCEPT !.tx = Len(transactions) + 1])
    /\ UNCHANGED <<wallet_balances, tax_refunds, currentBalance, now>>

\* ---------------------------------------------- POST /api/payments/deposit
\* The bodies of a deposit request; assetType defaults to XP.
DepositBodies ==
    {[NoBody EXCEPT !.op = "deposit", !.amount = amount,
                    !.assetType = "XP"] :
        amount \in AmountInputs}

\* Lines 625-628: the validation of a deposit body.
DepositInvalid(b) == ~Truthy(b.amount) \/ LessEq(parseFloat(b.amount), 0)

\* Lines 622-634: validation, then the balance query is issued.
DepositReceive ==
    \E b \in DepositBodies :
        /\ IF DepositInvalid(b)
           THEN Reject(Reply(400, "Invalid deposit amount"))
           ELSE Receive(b, "deposit_select")
        /\ UNCHANGED <<dbvars, currentBalance, now>>

\* The deposit handler with the default of the send handler.
DepositCurrentBalanceAsSend(rows) ==
    IF Len(rows) > 0 THEN rows[1].balance ELSE SendDefaultBalance

\* The balance the deposit handler takes as current (lines 636-638).
DepositCurrentBalance(rows) ==
    IF Len(rows) > 0 THEN rows[1].balance ELSE DepositDefaultBalance

\* Line 640.
DepositNewBalance(current, amount) == Plus(current, parseFloat(amount))

\* Lines 631-653: the balance query returns; the new balance is computed
\* and the UPDATE or the INSERT is issued.
DepositSelect(f) ==
    /\ f.pc = "deposit_select"
    /\ LET rows == SelectBalance(wallet_balances, WalletAddress)
           current == DepositCurrentBalance(rows)
       IN Goto(f, "deposit_write", [f.local EXCEPT
                 !.rows = Len(rows),
                 !.currentBalance = current,
                 !.newBalance = DepositNewBalance(current, f.body.amount)])
    /\ UNCHANGED <<dbvars, currentBalance, now>>

\* INSERT INTO wallet_balances (address, balance, asset_type): throws on
\* the unique address.
InsertBalanceFails(rows, address) == AddressTaken(rows, address)

\* Lines 643-667: the UPDATE or INSERT runs; the hash is drawn and the
\* transaction insert is issued.
DepositWrite(f) ==
    /\ f.pc = "deposit_write"
    /\ IF f.local.rows = 0
          /\ InsertBalanceFails(wallet_balances, WalletAddress)
       THEN /\ Finish(f, Reply(500, "Failed to process deposit"), f.local)
            /\ UNCHANGED <<wallet_balances, now>>
       ELSE \E txHash \in Draws :
            /\ wallet_balances' =
                 IF f.local.rows > 0
                 THEN UpdateBalanceRows(wallet_balances, WalletAddress,
                                        f.local.newBalance, now + 1)
                 ELSE Append(wallet_balances,
                             WalletRow(WalletAddress, f.local.newBalance,
                                       f.body.assetType, now + 1))
            /\ now' = now + 1
            /\ Goto(f, "deposit_insert", [f.local EXCEPT
                 !.txHash = txHash,
                 !.wrote = TRUE,
                 !.delta =
                    IF f.local.rows > 0
                    THEN RowsDelta(wallet_balances, wallet_balances',
                                   WalletAddress)
                    ELSE f.local.newBalance])
    /\ UNCHANGED <<transactions, tax_refunds, currentBalance>>

\* Lines 669-682: storage.createTransaction returns, or throws on the
\* unique tx_hash or on an amount the numeric column refuses; the
\* response is sent.
DepositInsert(f) ==
    /\ f.pc = "deposit_insert"
    /\ IF \/ HashTaken(transactions, f.local.txHash)
          \/ InvalidNumeric(toString(f.body.amount))
       THEN /\ Finish(f, Reply(500, "Failed to process deposit"), f.local)
            /\ UNCHANGED transactions
       ELSE /\ transactions' = Append(transactions,
                TxRow(AuthUserId, "external", WalletAddress,
                      f.body.assetType, toString(f.body.amount),
                      f.local.txHash, "completed", "receive"))
            /\ Finish(f, [Reply(200, "Deposit completed successfully")
                          EXCEPT !.currentBalance =
                                    Str(f.local.currentBalance),
                                 !.newBalance = Str(f.local.newBalance)],
                      [f.local EXCEPT !.tx = Len(transactions) + 1])
    /\ UNCHANGED <<wallet_balances, tax_refunds, currentBalance, now>>

\* ---------------------------------------- GET /api/xphere/balance/:address
\* Lines 552-558: the balance query is issued.
BalanceReceive ==
    \E address \in {WalletAddress, OtherAddress} :
        /\ Receive([NoBody EXCEPT !.op = "balance", !.address = address],
                   "balance_select")
        /\ UNCHANGED <<dbvars, currentBalance, now>>

\* Lines 570-575: the endpoint of the environment alone if
\* VITE_XPHERE_RPC_URL is set, else the three fallback endpoints.
BalanceEndpointLists ==
    {<<"VITE_XPHERE_RPC_URL">>,
     <<"https://rpc.x-phere.com", "https://mainnet-rpc.x-phere.com",
       "https://api.x-phere.com/rpc">>}

\* Lines 562-566, 598-602, 612: the answer, its balance with six
\* decimals.
BalanceAnswer(f, balance, loc) ==
    Finish(f, [Reply(200, "") EXCEPT !.currentBalance = Str(balance)], loc)

\* Lines 560-579 and 613-616: the rows arrive.  The stored balance is
\* sent if there is a row, unless it is NaN: BigInt(NaN) throws and the
\* handler answers 500.  Without a row the list of endpoints is built
\* and the first one is fetched.
BalanceSelect(f) ==
    /\ f.pc = "balance_select"
    /\ LET rows == SelectBalance(wallet_balances, f.body.address)
           loc == [f.local EXCEPT !.rows = Len(rows)]
       IN IF Len(rows) > 0
          THEN IF rows[1].balance = NaN
               THEN Finish(f, Reply(500, "Failed to check balance"), loc)
               ELSE BalanceAnswer(f, rows[1].balance, loc)
          ELSE \E endpoints \in BalanceEndpointLists :
                  Goto(f, "balance_fetch",
                       [loc EXCEPT !.endpoints = endpoints, !.next = 1])
    /\ UNCHANGED <<dbvars, currentBalance, now>>

\* Lines 604-612: the pass over an endpoint ended without an answer; the
\* next endpoint is fetched, or after the last one a balance of 0 is
\* sent.
BalanceContinue(f) ==
    IF f.local.next < Len(f.local.endpoints)
    THEN Goto(f, "balance_fetch", [f.local EXCEPT !.next = @ + 1])
    ELSE BalanceAnswer(f, 0, f.local)

\* Lines 579-594 and 605-608: the fetch settles with an OK response,
\* whose body is then read, with another response, or with a rejection.
BalanceFetch(f) ==
    /\ f.pc = "balance_fetch"
    /\ \E fetched \in {"ok", "status", "throw"} :
        IF fetched = "ok"
        THEN Goto(f, "balance_json", f.local)
        ELSE BalanceContinue(f)
    /\ UNCHANGED <<dbvars, currentBalance, now>>

\* Lines 594-608: response.json() settles with a body that has a result
\* (the balance of the chain, sent as it is), with a body that has none,
\* or with a rejection.
BalanceJson(f) ==
    /\ f.pc = "balance_json"
    /\ \E json \in {"result", "no_result", "throws"}, chain \in 0..1 :
        IF json = "result"
        THEN BalanceAnswer(f, chain, f.local)
        ELSE BalanceContinue(f)
    /\ UNCHANGED <<dbvars, currentBalance, now>>

\* ------------------------------------------ POST /api/xphere/update-balance
\* update-balance writing the balance row instead of the variable.
UpdateBalancePersists ==
    \E address \in {WalletAddress, OtherAddress},
       newBalance \in {Num(n) : n \in 1..MaxAmount} :
        /\ wallet_balances' = UpdateBalanceRows(wallet_balances, address,
                                 parseFloat(newBalance), now + 1)
        /\ now' = now + 1
        /\ Reject([Reply(200, "") EXCEPT !.newBalance = toString(newBalance)])
        /\ UNCHANGED <<transactions, tax_refunds, currentBalance>>

\* Lines 756-764.  currentBalance is declared nowhere in the module: the
\* assignment throws a ReferenceError where the module is compiled as
\* strict code and creates a global where it is not.
UpdateBalance ==
    \E address \in {WalletAddress, OtherAddress},
       newBalance \in {Num(n) : n \in 1..MaxAmount},
       strict \in BOOLEAN :
        /\ IF address = WalletAddress /\ strict
           THEN /\ Reject(Reply(500, "Failed to update balance"))
                /\ UNCHANGED currentBalance
           ELSE /\ currentBalance' = IF address = WalletAddress
                                     THEN Num(parseFloat(newBalance))
                                     ELSE currentBalance
                /\ Reject([Reply(200, "") EXCEPT
                             !.newBalance = toString(newBalance)])
        /\ UNCHANGED <<dbvars, now>>

\* ------------------------------------------------------------ the system
InitRows ==
    {<<>>, <<WalletRow(OtherAddress, 1, "XP", 0)>>}
    \cup {<<WalletRow(WalletAddress, b, "XP", 0)>> : b \in 0..MaxAmount}

Init ==
    /\ wallet_balances \in InitRows
    /\ transactions = <<>>
    /\ tax_refunds = <<>>
    /\ currentBalance = Undef
    /\ now = 0
    /\ handlers = EmptyBag
    /\ resp = NoResp
    /\ started = 0
    /\ log = <<>>
    /\ initial = wallet_balances

Next ==
    \/ SendReceive
    \/ DepositReceive
    \/ BalanceReceive
    \/ UpdateBalance
    \/ \E f \in Suspended :
        \/ SendSelect(f)
        \/ SendInsert(f)
        \/ SendUpdate(f)
        \/ SendOther(f)
        \/ DepositSelect(f)
        \/ DepositWrite(f)
        \/ DepositInsert(f)
        \/ BalanceSelect(f)
        \/ BalanceFetch(f)
        \/ BalanceJson(f)

Spec == Init /\ [][Next]_vars

\* The same handlers when no two requests overlap: a request is received
\* only when no handler is suspended.
SeqNext ==
    \/ handlers = EmptyBag /\ SendReceive
    \/ handlers = EmptyBag /\ DepositReceive
    \/ handlers = EmptyBag /\ BalanceReceive
    \/ handlers = EmptyBag /\ UpdateBalance
    \/ \E f \in Suspended :
        \/ SendSelect(f)
        \/ SendInsert(f)
        \/ SendUpdate(f)
        \/ SendOther(f)
        \/ DepositSelect(f)
        \/ DepositWrite(f)
        \/ DepositInsert(f)
        \/ BalanceSelect(f)
        \/ BalanceFetch(f)
        \/ BalanceJson(f)

SeqSpec == Init /\ [][SeqNext]_vars

\* ------------------------------------------------------ tax-refund workflow
\* A row of table tax_refunds: id serial, status text default pending,
\* processed_at null until set, created_at default now.
RefundRow(id, userId, refundAmount, status, at) ==
    [id |-> id, userId |-> userId, refundAmount |-> refundAmount,
     status |-> status, processedAt |-> Null, createdAt |-> at]

\* storage.createTaxRefund (storage.ts 136-139): the row is inserted with
\* the next id; a column the data leaves out takes its default.
createTaxRefund(rows, data, at) ==
    Append(rows, RefundRow(Len(rows) + 1, data.userId, data.refundAmount,
                           IF data.status = Missing THEN "pending"
                           ELSE data.status,
                           at))

\* The status with rejection as the only recognised action.
ProcessStatusUnlessReject(action) ==
    IF action = "reject" THEN "rejected" ELSE "approved"

\* storage.processTaxRefund (storage.ts 145-153): the status the action
\* selects.
ProcessStatus(action) == IF action = "approve" THEN "approved" ELSE "rejected"

\* processTaxRefund without processedAt in the SET clause.
processTaxRefundNoStamp(rows, refundId, action, at) ==
    [i \in 1..Len(rows) |->
        IF rows[i].id = refundId
        THEN [rows[i] EXCEPT !.status = ProcessStatus(action)]
        ELSE rows[i]]

\* storage.processTaxRefund (storage.ts 145-153): UPDATE tax_refunds SET
\* status, processed_at WHERE id = refundId.
processTaxRefund(rows, refundId, action, at) ==
    [i \in 1..Len(rows) |->
        IF rows[i].id = refundId
        THEN [rows[i] EXCEPT !.status = ProcessStatus(action),
                             !.processedAt = at]
        ELSE rows[i]]

\* authenticateToken (routes.ts 13-36) on a path it does not skip: 0 if the
\* bearer token verifies, else the status of the refusal.
AuthRefusals == {0, 401, 403}

AuthReply(refusal) ==
    Reply(refusal, IF refusal = 401 THEN "Access token required"
                   ELSE "Invalid token")

\* POST /api/tax-refund/apply, lines 467-474: the body, with the userId of
\* the token, is parsed by insertTaxRefundSchema (which omits id, createdAt
\* and processedAt only) and the insert is issued.
ApplyReceive ==
    \E refusal \in AuthRefusals,
       complete \in BOOLEAN,
       status \in {Missing, "pending", "approved", "rejected", "completed"},
       refundAmount \in {Str(n) : n \in 1..MaxAmount} :
        /\ IF refusal # 0
           THEN Reject(AuthReply(refusal))
           ELSE IF ~complete
           THEN Reject(Reply(400, "Tax refund application failed"))
           ELSE Receive([NoBody EXCEPT !.op = "apply", !.status = status,
                                       !.amount = refundAmount],
                        "apply_insert")
        /\ UNCHANGED <<dbvars, currentBalance, now>>

\* Lines 474-475: storage.createTaxRefund inserts the row.
ApplyInsert(f) ==
    /\ f.pc = "apply_insert"
    /\ tax_refunds' = createTaxRefund(tax_refunds,
                        [userId |-> AuthUserId,
                         refundAmount |-> parseFloat(f.body.amount),
                         status |-> f.body.status],
                        now + 1)
    /\ now' = now + 1
    /\ Finish(f, Reply(200, ""), f.local)
    /\ UNCHANGED <<wallet_balances, transactions, currentBalance>>

\* POST /api/tax-refund/:id/process, lines 492-497 (the route registered
\* first; the one of lines 1395-1411 has the same path and is never
\* reached): storage.processTaxRefund takes new Date() for processedAt
\* (storage.ts 149) and the update is issued.
ProcessReceive ==
    \E refusal \in AuthRefusals,
       id \in 1..(Len(tax_refunds) + 1),
       action \in {"approve", "reject", "APPROVE", Missing} :
        /\ IF refusal # 0
           THEN /\ Reject(AuthReply(refusal))
                /\ UNCHANGED now
           ELSE /\ started < NumReqs
                /\ started' = started + 1
                /\ now' = now + 1
                /\ handlers' = handlers (+) SetToBag({
                      Frame("process_update",
                            [NoBody EXCEPT !.op = "process", !.id = id,
                                           !.action = action],
                            [NoLocal EXCEPT !.at = now + 1])})
                /\ UNCHANGED <<resp, log, initial>>
        /\ UNCHANGED <<dbvars, currentBalance>>

\* The update of lines 497-498 without its WHERE clause.
ProcessUpdateAllRows(f) ==
    /\ f.pc = "process_update"
    /\ tax_refunds' = [i \in 1..Len(tax_refunds) |->
                         [tax_refunds[i] EXCEPT
                             !.status = ProcessStatus(f.body.action),
                             !.processedAt = f.local.at]]
    /\ Finish(f, [Reply(200, "") EXCEPT !.action = f.body.action], f.local)
    /\ UNCHANGED <<wallet_balances, transactions, currentBalance, now>>

\* Lines 497-498: the UPDATE of storage.processTaxRefund runs, with the
\* processedAt taken at the call, and its row (or nothing) is sent.
ProcessUpdate(f) ==
    /\ f.pc = "process_update"
    /\ tax_refunds' = processTaxRefund(tax_refunds, f.body.id, f.body.action,
                                       f.local.at)
    /\ Finish(f, [Reply(200, "") EXCEPT !.action = f.body.action], f.local)
    /\ UNCHANGED <<wallet_balances, transactions, currentBalance, now>>

InitRefunds == {<<>>, <<RefundRow(1, AuthUserId, 1, "pending", 0)>>}

RefundInit ==
    /\ wallet_balances = <<>>
    /\ transactions = <<>>
    /\ tax_refunds \in InitRefunds
    /\ currentBalance = Undef
    /\ now = 0
    /\ handlers = EmptyBag
    /\ resp = NoResp
    /\ started = 0
    /\ log = <<>>
    /\ initial = wallet_balances

RefundNext ==
    \/ ApplyReceive
    \/ ProcessReceive
    \/ \E f \in Suspended :
        \/ ApplyInsert(f)
        \/ ProcessUpdate(f)

RefundSpec == RefundInit /\ [][RefundNext]_vars

\* ---------------------------------------------------------- tax calculator
\* The upper bounds of the income brackets (routes.ts 1356-1359 and
\* 1309-1312), in won.
Limit6 == 12000000
Limit15 == 46000000
Limit24 == 88000000
Limit35 == 150000000

\* The eligibility score an estimate starts from and the income and refund
\* thresholds of lines 1368 and 1374.
BaseScore == 85
HighIncome == 100000000
SlowRefund == 5000000

\* The rate selection with exclusive upper bounds.
TaxRateExclusive(income, nan) ==
    IF nan THEN 38
    ELSE IF income < Limit6 THEN 6
    ELSE IF income < Limit15 THEN 15
    ELSE IF income < Limit24 THEN 24
    ELSE IF income < Limit35 THEN 35
    ELSE 38

\* Lines 1355-1360 and 1308-1313: the rate, in percent, selected by the
\* income; every comparison with NaN is false, which selects the last
\* rate.
TaxRate(income, nan) ==
    IF nan THEN 38
    ELSE IF income <= Limit6 THEN 6
    ELSE IF income <= Limit15 THEN 15
    ELSE IF income <= Limit24 THEN 24
    ELSE IF income <= Limit35 THEN 35
    ELSE 38

\* x itself, without the lower bound 0.
Unbounded(x) == x

\* Math.max(0, x).
Max0(x) == IF x > 0 THEN x ELSE 0

\* amount * rate for a rate of pct percent and an amount >= 0.  The
\* amounts of the bodies are multiples of 100 won chosen so that the
\* double product is this whole number of won.
Percent(amount, pct) ==
    (amount \div 100) * pct + ((amount % 100) * pct) \div 100

\* Lines 1362-1364 and 1315-1317: taxableIncome, calculatedTax and the
\* refund amount from income, paid and deduct.  nan says that income is
\* NaN, which makes taxableIncome and calculatedTax NaN; paidNaN says
\* that paid is NaN; either makes the refund amount NaN.
Calculate(income, paid, deduct, nan, paidNaN) ==
    LET taxableIncome == Max0(income - deduct)
        calculatedTax == Percent(taxableIncome, TaxRate(income, nan))
    IN [NoTax EXCEPT !.taxRate = TaxRate(income, nan),
                     !.taxableIncome = IF nan THEN 0 ELSE taxableIncome,
                     !.calculatedTax = IF nan THEN 0 ELSE calculatedTax,
                     !.amount = IF nan \/ paidNaN THEN 0
                                ELSE Max0(paid - calculatedTax),
                     !.nan = nan,
                     !.amountNaN = nan \/ paidNaN]

\* parseFloat(x) || 0: NaN and 0 give 0.
NumberOrZero(x) == IF NotANumber(x) THEN 0 ELSE parseFloat(x)

\* Lines 1366-1375: the eligibility score, clamped to 0..100.
EligibilityScore(income, deduct, refundType) ==
    LET score == BaseScore
                 - (IF income > HighIncome THEN 10 ELSE 0)
                 - (IF deduct * 10 > income * 3 THEN 5 ELSE 0)
                 + (IF refundType = "income_tax" THEN 5 ELSE 0)
    IN IF score > 100 THEN 100 ELSE Max0(score)

\* The bodies of tax-refund requests.  An income, tax paid or deduction
\* is missing, not a number, or an amount in won given as a number or as
\* a string.
TaxBody(refundType, gross, paid, deduct, present) ==
    [NoTaxBody EXCEPT !.refundType = refundType, !.grossIncome = gross,
                      !.taxPaid = paid, !.deductions = deduct,
                      !.present = present]

\* Incomes on both sides of every bracket bound.  The income above
\* Limit24 is 98,000,000: for a taxable income between 84,300,000 and
\* 95,800,000 the double product with 0.35 is not a whole number.
GrossInputs ==
    {Str(10000000)}
    \cup {Num(n) : n \in {0, 10000000, Limit6, Limit6 + 100, Limit15,
                          Limit15 + 100, Limit24, 98000000,
                          HighIncome, Limit35, Limit35 + 100}}

TaxBodies ==
    {TaxBody("income_tax", gross, paid, deduct, TRUE) :
        gross \in GrossInputs, paid \in {Num(1000000), Num(20000000)},
        deduct \in {Undef, Num(2000000)}}
    \cup
    {TaxBody("income_tax", gross, paid, deduct, TRUE) :
        gross \in {Undef, Text, Num(0), Num(10000000)},
        paid \in {Undef, Text, Num(0), Num(1000000)},
        deduct \in {Text, Num(0), Num(20000000)}}
    \cup
    {TaxBody(refundType, Num(10000000), Num(1000000), Num(0), present) :
        refundType \in {Missing, "income_tax"}, present \in BOOLEAN}

\* POST /api/tax-refund/estimate, lines 1346-1393: what the handler
\* computes from a body.  The amount sent is Math.round(estimatedAmount),
\* which for the whole amounts of the bodies is estimatedAmount.
Estimate(b) ==
    LET income == NumberOrZero(b.grossIncome)
        paid == NumberOrZero(b.taxPaid)
        deduct == NumberOrZero(b.deductions)
        tax == Calculate(income, paid, deduct, FALSE, FALSE)
    IN [tax EXCEPT !.eligibilityScore =
                        EligibilityScore(income, deduct, b.refundType),
                   !.processingTime =
                        IF tax.amount > SlowRefund THEN "5-7" ELSE "3-5"]

\* An estimate that stores the refund it estimates.
EstimateRequestPersists ==
    \E b \in TaxBodies :
        /\ Reject([Reply(200, "") EXCEPT !.op = "estimate", !.body = b,
                                         !.tax = Estimate(b)])
        /\ tax_refunds' = createTaxRefund(tax_refunds,
                            [userId |-> AuthUserId,
                             refundAmount |-> Estimate(b).amount,
                             status |-> "pending"],
                            now)
        /\ UNCHANGED <<wallet_balances, transactions, currentBalance, now>>

\* POST /api/tax-refund/estimate: the handler has no await; the estimate
\* is sent.
EstimateRequest ==
    \E b \in TaxBodies :
        /\ Reject([Reply(200, "") EXCEPT !.op = "estimate", !.body = b,
                                         !.tax = Estimate(b)])
        /\ UNCHANGED <<dbvars, currentBalance, now>>

\* POST /api/tax-refund/submit, lines 1298-1300: the validation of the
\* required fields.
SubmitInvalid(b) ==
    \/ b.refundType = Missing
    \/ ~b.present
    \/ ~Truthy(b.grossIncome)
    \/ ~Truthy(b.taxPaid)

\* Lines 1302-1317: what the submit handler computes from a body.
SubmitCalculate(b) ==
    Calculate(parseFloat(b.grossIncome), parseFloat(b.taxPaid),
              NumberOrZero(b.deductions),
              NotANumber(b.grossIncome), NotANumber(b.taxPaid))

\* Lines 1319-1331: refundData.  Of the columns of tax_refunds it has
\* userId and status; its other keys (refundType, taxYear, amount,
\* grossIncome, ...) name no column, and it has none of the columns
\* that are NOT NULL without a default.
SubmitData(b) ==
    [userId |-> AuthUserId, refundAmount |-> 0, status |-> "pending",
     required |-> FALSE]

\* Lines 1293-1333: validation, the calculation, and the insert is issued.
SubmitReceive ==
    \E b \in TaxBodies :
        /\ IF SubmitInvalid(b)
           THEN Reject([Reply(400, "Required fields missing")
                          EXCEPT !.op = "submit", !.body = b])
           ELSE Receive([NoBody EXCEPT !.op = "submit", !.tax = b],
                        "submit_insert")
        /\ UNCHANGED <<dbvars, currentBalance, now>>

\* Lines 1333-1343: storage.createTaxRefund inserts the row, or throws on
\* a NOT NULL column the data lacks.
SubmitInsert(f) ==
    /\ f.pc = "submit_insert"
    /\ LET data == SubmitData(f.body.tax)
           sent == [Reply(IF data.required THEN 200 ELSE 500,
                          IF data.required
                          THEN "Tax refund application submitted successfully"
                          ELSE "Failed to submit tax refund")
                      EXCEPT !.body = f.body.tax,
                             !.tax = SubmitCalculate(f.body.tax)]
       IN /\ tax_refunds' = IF data.required
                            THEN createTaxRefund(tax_refunds, data, now + 1)
                            ELSE tax_refunds
          /\ now' = IF data.required THEN now + 1 ELSE now
          /\ Finish(f, sent, f.local)
    /\ UNCHANGED <<wallet_balances, transactions, currentBalance>>

\* The requests of the tax calculator, one at a time.
TaxNext ==
    \/ handlers = EmptyBag /\ EstimateRequest
    \/ handlers = EmptyBag /\ SubmitReceive
    \/ \E f \in Suspended : SubmitInsert(f)

TaxSpec == RefundInit /\ [][TaxNext]_vars

\* The update with a WHERE clause that matches no row.
updateNoTransaction(rows, transactionId, updateData) == rows

\* ------------------------------------------------- transaction recorder
\* storage.updateTransaction (storage.ts 180-187): UPDATE transactions SET
\* updateData WHERE id = transactionId.  The id of a row is its position.
updateTransaction(rows, transactionId, updateData) ==
    [i \in 1..Len(rows) |->
        IF i = transactionId
        THEN [k \in DOMAIN rows[i] |->
                IF k \in DOMAIN updateData THEN updateData[k]
                ELSE rows[i][k]]
        ELSE rows[i]]

\* The bodies of POST /api/wallet/send (line 1532); memo names no column.
WalletSendBodies ==
    {[NoBody EXCEPT !.op = "wallet_send", !.toAddress = toAddress,
                    !.amount = amount, !.assetType = assetType] :
        toAddress \in {Missing, OtherAddress}, amount \in AmountInputs,
        assetType \in {Missing, "XP"}}

\* The balance of the asset of the requested type among the rows
\* storage.getAssetsByUserId(1) returns, as a decimal string, or Undef if
\* there is none.  No route writes table assets (storage.createAsset and
\* storage.updateAsset touch no table), so its rows are those of
\* start-up.
AssetBalances == {Undef} \cup {Str(n) : n \in 0..MaxAmount}

\* POST /api/wallet/send, lines 1530-1539: validation, then the assets
\* are queried.
WalletSendReceive ==
    \E b \in WalletSendBodies :
        /\ IF b.assetType = Missing \/ ~Truthy(b.amount)
              \/ b.toAddress = Missing
           THEN Reject(Reply(400, "Required fields missing"))
           ELSE Receive(b, "wallet_select")
        /\ UNCHANGED <<dbvars, currentBalance, now>>

\* Lines 1539-1567: the assets arrive; asset and balance checks; the
\* hash is drawn and the transaction insert is issued.
WalletSendSelect(f) ==
    /\ f.pc = "wallet_select"
    /\ \E balance \in AssetBalances, txHash \in Draws :
        IF balance = Undef
        THEN Finish(f, Reply(404, "Asset not found"), f.local)
        ELSE IF Less(parseFloat(balance), parseFloat(f.body.amount))
        THEN Finish(f, Reply(400, "Insufficient balance"),
                    [f.local EXCEPT !.currentBalance = parseFloat(balance)])
        ELSE Goto(f, "wallet_insert",
                  [f.local EXCEPT !.currentBalance = parseFloat(balance),
                                  !.txHash = txHash])
    /\ UNCHANGED <<dbvars, currentBalance, now>>

\* Lines 1567-1588: storage.createTransaction inserts the pending record,
\* or throws on the unique tx_hash; on success the timer is set and the
\* response is sent.
WalletSendInsert(f) ==
    /\ f.pc = "wallet_insert"
    /\ IF HashTaken(transactions, f.local.txHash)
       THEN /\ Finish(f, Reply(500, "Failed to send transaction"), f.local)
            /\ UNCHANGED transactions
       ELSE LET loc == [f.local EXCEPT !.tx = Len(transactions) + 1]
            IN /\ transactions' = Append(transactions,
                    TxRow(AuthUserId, WalletAddress, f.body.toAddress,
                          f.body.assetType, Str(parseFloat(f.body.amount)),
                          f.local.txHash, "pending", "send"))
               /\ handlers' = (handlers (-) SetToBag({f}))
                                (+) SetToBag({Frame("wallet_timer",
                                                    f.body, loc)})
               /\ resp' = Done(f, Reply(200,
                                "Transaction submitted successfully"), loc)
               /\ UNCHANGED <<started, log, initial>>
    /\ UNCHANGED <<wallet_balances, tax_refunds, currentBalance, now>>

\* Lines 1570-1573, the setTimeout callback: storage.updateTransaction is
\* called and its UPDATE is issued.
WalletSendTimer(f) ==
    /\ f.pc = "wallet_timer"
    /\ Goto(f, "wallet_update", f.local)
    /\ UNCHANGED <<dbvars, currentBalance, now>>

\* The UPDATE of the callback also rewriting the amount.
WalletSendUpdateRewrites(f) ==
    /\ f.pc = "wallet_update"
    /\ transactions' = updateTransaction(transactions, f.local.tx,
                            [status |-> "completed", amount |-> 0])
    /\ handlers' = handlers (-) SetToBag({f})
    /\ UNCHANGED <<wallet_balances, tax_refunds, currentBalance, now, resp,
                   started, log, initial>>

\* Lines 1573-1581: the UPDATE returns, the status of the record is
\* completed; storage.updateAsset writes nothing and the callback ends.
WalletSendUpdate(f) ==
    /\ f.pc = "wallet_update"
    /\ transactions' = updateTransaction(transactions, f.local.tx,
                            [status |-> "completed"])
    /\ handlers' = handlers (-) SetToBag({f})
    /\ UNCHANGED <<wallet_balances, tax_refunds, currentBalance, now, resp,
                   started, log, initial>>

\* POST /api/zigap/transaction, lines 1000-1008: the hash is drawn and the
\* insert is issued.
ZigapReceive ==
    \E to \in {Missing, OtherAddress}, txHash \in Draws :
        /\ Receive([NoBody EXCEPT !.op = "zigap", !.toAddress = to,
                                  !.amount = Num(1), !.assetType = "XP",
                                  !.txHash = txHash],
                   "zigap_insert")
        /\ UNCHANGED <<dbvars, currentBalance, now>>

\* Lines 1008-1023: storage.createTransaction is given no
\* transactionType, a NOT NULL column without default, and throws.
ZigapInsert(f) ==
    /\ f.pc = "zigap_insert"
    /\ LET transactionType == Missing
       IN IF transactionType = Missing \/ f.body.toAddress = Missing
             \/ HashTaken(transactions, f.body.txHash)
          THEN /\ Finish(f, Reply(500, "Transaction failed"), f.local)
               /\ UNCHANGED transactions
          ELSE /\ transactions' = Append(transactions,
                    TxRow(AuthUserId, WalletAddress, f.body.toAddress,
                          f.body.assetType, f.body.amount, f.body.txHash,
                          "completed", transactionType))
               /\ Finish(f, Reply(200, "success"), f.local)
    /\ UNCHANGED <<wallet_balances, tax_refunds, currentBalance, now>>

\* The transactions stored at start-up.
InitTransactions ==
    {<<>>, <<TxRow(AuthUserId, WalletAddress, OtherAddress, "XP", Str(1), 1,
                   "pending", "send")>>}

TxInit ==
    /\ wallet_balances = <<>>
    /\ transactions \in InitTransactions
    /\ tax_refunds = <<>>
    /\ currentBalance = Undef
    /\ now = 0
    /\ handlers = EmptyBag
    /\ resp = NoResp
    /\ started = 0
    /\ log = <<>>
    /\ initial = wallet_balances

TxNext ==
    \/ WalletSendReceive
    \/ ZigapReceive
    \/ \E f \in Suspended :
        \/ WalletSendSelect(f)
        \/ WalletSendInsert(f)
        \/ WalletSendTimer(f)
        \/ WalletSendUpdate(f)
        \/ ZigapInsert(f)

TxSpec == TxInit /\ [][TxNext]_vars

\* The timer set at line 1570 fires: a callback that is due is run by the
\* event loop.
TimerFires == \E f \in Suspended : WalletSendTimer(f)

\* The UPDATE the callback awaits returns.
UpdateReturns == \E f \in Suspended : WalletSendUpdate(f)

TxFairSpec == TxSpec /\ WF_vars(TimerFires) /\ WF_vars(UpdateReturns)

\* ----------------------------------------------- GET /api/payments/history
\* The orders in which a query without ORDER BY can return the rows S:
\* SQL leaves the order open, so every order is one.
Orders(S) ==
    {order \in [1..Cardinality(S) -> S] :
        \A j, k \in 1..Cardinality(S) : order[j] = order[k] => j = k}

\* storage.getTransactionsByUserId (storage.ts 131-133): SELECT * FROM
\* transactions WHERE user_id = userId; the rows that match, by position.
getTransactionsByUserId(rows, userId) ==
    {i \in 1..Len(rows) : rows[i].userId = userId}

\* GET /api/payments/history, lines 456-458: authenticateToken, then the
\* query for the userId of the token is issued.
HistoryReceive ==
    \E refusal \in AuthRefusals, userId \in {AuthUserId, AuthUserId + 1} :
        /\ IF refusal # 0
           THEN Reject(AuthReply(refusal))
           ELSE Receive([NoBody EXCEPT !.op = "history", !.userId = userId],
                        "history_select")
        /\ UNCHANGED <<dbvars, currentBalance, now>>

\* Lines 458-459: the rows arrive and are sent as they came.
HistorySelect(f) ==
    /\ f.pc = "history_select"
    /\ \E order \in Orders(getTransactionsByUserId(transactions,
                                                   f.body.userId)) :
        Finish(f, [Reply(200, "") EXCEPT !.userId = f.body.userId,
                                         !.list = order],
               f.local)
    /\ UNCHANGED <<dbvars, currentBalance, now>>

\* Tables of up to three transactions of two users, hashes 1, 2, 3.
HistoryTables ==
    {<<>>}
    \cup {[i \in 1..n |->
            TxRow(users[i], WalletAddress, OtherAddress, "XP", Str(1), i,
                  "completed", "send")] :
          n \in 1..3, users \in [1..3 -> {AuthUserId, AuthUserId + 1}]}

HistoryInit ==
    /\ wallet_balances = <<>>
    /\ transactions \in HistoryTables
    /\ tax_refunds = <<>>
    /\ currentBalance = Undef
    /\ now = 0
    /\ handlers = EmptyBag
    /\ resp = NoResp
    /\ started = 0
    /\ log = <<>>
    /\ initial = wallet_balances

HistoryNext ==
    \/ HistoryReceive
    \/ \E f \in Suspended : HistorySelect(f)

HistorySpec == HistoryInit /\ [][HistoryNext]_vars

\* ============================================== generated hashes as text
\* The ledger model above identifies a hash by a number.  This section
\* computes the text each generation site builds from Math.random().
\* A value of Math.random() is k / 16^RandomDigits, written k; the real
\* generator has 13 hexadecimal digits, the model RandomDigits of them.
RandomDigits == 2

\* The 64 of Array.from({length: 64}, ...) (routes.ts 410, 656).
HashDigits == 64

\* The end index of substring(2, 66) (routes.ts 1005, 1562).
SubstringEnd == 66

Randoms == 0..(16^RandomDigits - 1)

\* The digits Number.prototype.toString(16) writes.
HexDigits == <<"0", "1", "2", "3", "4", "5", "6", "7",
               "8", "9", "a", "b", "c", "d", "e", "f">>

\* Math.floor(Math.random() * 16).toString(16)
RandomDigit(r) == HexDigits[(r \div 16^(RandomDigits - 1)) + 1]

\* The i-th hexadecimal digit of the fraction r.
FractionDigit(r, i) == (r \div 16^(RandomDigits - i)) % 16

\* Math.random().toString(16): "0" for zero, otherwise "0." and the
\* digits of the fraction up to the last one that is not zero.
toString16(r) ==
    IF r = 0 THEN <<"0">>
    ELSE LET last == CHOOSE n \in 1..RandomDigits :
                        /\ FractionDigit(r, n) # 0
                        /\ \A m \in (n + 1)..RandomDigits :
                              FractionDigit(r, m) = 0
         IN  <<"0", ".">> \o [i \in 1..last |-> HexDigits[FractionDigit(r, i) + 1]]

\* String.prototype.substring(start, end), 0 <= start <= end.
substring(s, start, end) ==
    SubSeq(s, start + 1, IF end < Len(s) THEN end ELSE Len(s))

\* '0x' + Array.from({length: 64}, () => ...).join('') (routes.ts 410,
\* 656), draws[i] the value of the i-th call of Math.random().
ArrayTxHash(draws) ==
    <<"0", "x">> \o [i \in 1..HashDigits |-> RandomDigit(draws[i])]

\* `0x${Math.random().toString(16).substring(2, 66)}` (routes.ts 1005,
\* 1562).
SubstringTxHash(r) ==
    <<"0", "x">> \o substring(toString16(r), 2, SubstringEnd)

\* Streams of 64 draws: two values of Math.random() in turn, each any
\* value with a given first digit.
DrawStreams ==
    {[i \in 1..HashDigits |-> pair[((i - 1) % 2) + 1]] :
        pair \in [1..2 -> {d * 16^(RandomDigits - 1) : d \in 0..15}]}

\* What is recorded of a generation: its site and the text.
Generated(site, text) == [NoResp EXCEPT !.op = site, !.txHash = text]

\* routes.ts 410: the hash of an XP send.
SendTxHash ==
    /\ \E draws \in DrawStreams :
          resp' = Generated("hash_send", ArrayTxHash(draws))
    /\ UNCHANGED <<dbvars, currentBalance, now, handlers, started, log,
                   initial>>

\* routes.ts 656: the hash of a deposit.
DepositTxHash ==
    /\ \E draws \in DrawStreams :
          resp' = Generated("hash_deposit", ArrayTxHash(draws))
    /\ UNCHANGED <<dbvars, currentBalance, now, handlers, started, log,
                   initial>>

\* routes.ts 1562: the hash of a wallet send.
WalletSendTxHash ==
    /\ \E r \in Randoms :
          resp' = Generated("hash_wallet", SubstringTxHash(r))
    /\ UNCHANGED <<dbvars, currentBalance, now, handlers, started, log,
                   initial>>

\* routes.ts 1005: the hash of a zigap transaction.
ZigapTxHash ==
    /\ \E r \in Randoms :
          resp' = Generated("hash_zigap", SubstringTxHash(r))
    /\ UNCHANGED <<dbvars, currentBalance, now, handlers, started, log,
                   initial>>

HashSites == {"hash_send", "hash_deposit", "hash_wallet", "hash_zigap"}

HashInit ==
    /\ wallet_balances = <<>>
    /\ transactions = <<>>
    /\ tax_refunds = <<>>
    /\ currentBalance = Undef
    /\ now = 0
    /\ handlers = EmptyBag
    /\ resp = NoResp
    /\ started = 0
    /\ log = <<>>
    /\ initial = wallet_balances

HashNext ==
    \/ SendTxHash
    \/ DepositTxHash
    \/ WalletSendTxHash
    \/ ZigapTxHash

HashSpec == HashInit /\ [][HashNext]_vars

\* ============================================ POST /api/xphere/rpc-proxy
\* Lines 773-778: the endpoint of the environment alone if
\* VITE_XPHERE_RPC_URL is set, else the three fallback endpoints.  The
\* variable is read at every request.
EndpointLists ==
    {<<"VITE_XPHERE_RPC_URL">>,
     <<"https://rpc.x-phere.com", "https://mainnet-rpc.x-phere.com",
       "https://api.x-phere.com/rpc">>}

\* How a fetch settles: a response with an OK status, a response with
\* another status, or a rejection (network error).
FetchOutcomes == {"ok", "status", "throw"}

\* How response.json() settles: the parsed body, or a rejection on a body
\* that is not JSON.
JsonOutcomes == {"parsed", "throws"}

\* One pass of the loop: the endpoint contacted and how its fetch and
\* the reading of its body settled ("none": the body was not read).
Attempt(endpoint, fetched, json) ==
    [endpoint |-> endpoint, fetch |-> fetched, json |-> json]

\* Line 799 with the test left out: every response is taken as OK.
AnyResponse(fetched) == TRUE

\* Line 799: response.ok.
ResponseOk(fetched) == fetched = "ok"

\* Lines 768-784 and 818-821: without a request body the destructuring
\* of line 770 throws and the outer catch sends 500; else the list is
\* built and the first endpoint is fetched.
RpcReceive ==
    \E endpoints \in EndpointLists, present \in BOOLEAN :
        /\ IF ~present
           THEN Reject([Reply(500, "RPC proxy failed") EXCEPT
                          !.op = "rpc", !.endpoints = endpoints])
           ELSE /\ started < NumReqs
                /\ started' = started + 1
                /\ handlers' = handlers (+) SetToBag({
                      Frame("rpc_fetch", [NoBody EXCEPT !.op = "rpc"],
                            [NoLocal EXCEPT !.endpoints = endpoints,
                                            !.next = 1])})
                /\ UNCHANGED <<resp, log, initial>>
        /\ UNCHANGED <<dbvars, currentBalance, now>>

\* Lines 802-817 and the end of the loop: the pass over an endpoint
\* ended without an answer; the next endpoint is fetched, or after the
\* last one 503 is sent with lastError.
RpcContinue(f, attempt, lastError) ==
    LET loc == [f.local EXCEPT !.attempts = Append(@, attempt),
                               !.response = "none",
                               !.lastError = lastError]
    IN IF f.local.next < Len(f.local.endpoints)
       THEN Goto(f, "rpc_fetch", [loc EXCEPT !.next = @ + 1])
       ELSE Finish(f, [Reply(503,
                   "All Xphere RPC endpoints are currently unavailable")
                       EXCEPT !.endpoints = loc.endpoints,
                              !.list = loc.attempts,
                              !.lastError = lastError],
                   loc)

\* Lines 784-808: the fetch of the endpoint settles.  An OK response has
\* its body read; any other response and a rejection end the pass.
RpcFetch(f) ==
    /\ f.pc = "rpc_fetch"
    /\ \E fetched \in FetchOutcomes :
        IF fetched # "throw" /\ ResponseOk(fetched)
        THEN Goto(f, "rpc_json", [f.local EXCEPT !.response = fetched])
        ELSE RpcContinue(f, Attempt(f.local.endpoints[f.local.next],
                                    fetched, "none"),
                         fetched)
    /\ UNCHANGED <<dbvars, currentBalance, now>>

\* Lines 800-801 and 805-808: response.json() settles.  The parsed body
\* is sent; a rejection is caught like one of the fetch.
RpcJson(f) ==
    /\ f.pc = "rpc_json"
    /\ LET endpoint == f.local.endpoints[f.local.next]
           fetched == f.local.response
       IN \E json \in JsonOutcomes :
           IF json = "parsed"
           THEN LET loc == [f.local EXCEPT
                              !.attempts = Append(@,
                                  Attempt(endpoint, fetched, json)),
                              !.response = "none"]
                IN Finish(f, [Reply(200, "") EXCEPT
                                 !.endpoints = loc.endpoints,
                                 !.list = loc.attempts,
                                 !.result = endpoint],
                          loc)
           ELSE RpcContinue(f, Attempt(endpoint, fetched, json), json)
    /\ UNCHANGED <<dbvars, currentBalance, now>>

RpcNext ==
    \/ RpcReceive
    \/ \E f \in Suspended :
        \/ RpcFetch(f)
        \/ RpcJson(f)

RpcInit ==
    /\ wallet_balances = <<>>
    /\ transactions = <<>>
    /\ tax_refunds = <<>>
    /\ currentBalance = Undef
    /\ now = 0
    /\ handlers = EmptyBag
    /\ resp = NoResp
    /\ started = 0
    /\ log = <<>>
    /\ initial = wallet_balances

RpcSpec == RpcInit /\ [][RpcNext]_vars

\* ================================================================ claims
\* The persisted balance of the wallet address: the balance of its row, 0
\* if it has none.
Persisted(rows) ==
    LET found == SelectBalance(rows, WalletAddress)
    IN IF Len(found) > 0 THEN found[1].balance ELSE 0

Quiescent == handlers = EmptyBag

\* The signed amount of an answered ledger request.
Delta(e) == IF e.op = "deposit" THEN e.amount ELSE Minus(0, e.amount)

\* The sum of the deltas of the requests answered with success.
RECURSIVE LedgerSum(_)
LedgerSum(entries) ==
    IF Len(entries) = 0 THEN 0
    ELSE Plus(IF Head(entries).status = 200 THEN Delta(Head(entries))
              ELSE 0,
              LedgerSum(Tail(entries)))

\* C1: in every reachable state the persisted balance of every wallet
\* address is >= 0, whatever the interleaving of deposits and sends.
C1_BalanceNonNegative ==
    \A i \in 1..Len(wallet_balances) :
        LessEq(0, wallet_balances[i].balance)

\* C2: for non-overlapping deposits and sends that start with no balance
\* row, the persisted balance after each request is the sum of the deltas
\* of the requests that succeeded so far.
C2_BalanceIsSumOfDeltas ==
    (Quiescent /\ ~AddressTaken(initial, WalletAddress))
        => Persisted(wallet_balances) = LedgerSum(log)

\* The table after one request run alone on it, as the handlers leave it
\* when no storage call fails.
SerialStep(rows, e) ==
    IF e.op = "deposit"
    THEN IF AddressTaken(rows, WalletAddress)
         THEN UpdateBalanceRows(rows, WalletAddress,
                  DepositNewBalance(Persisted(rows), Num(e.amount)), 0)
         ELSE Append(rows, WalletRow(WalletAddress, e.amount, "XP", 0))
    ELSE IF Insufficient(SendCurrentBalance(
                            SelectBalance(rows, WalletAddress)),
                         Num(e.amount))
         THEN rows
         ELSE UpdateBalanceRows(rows, WalletAddress,
                  SendNewBalance(Persisted(rows), Num(e.amount)), 0)

RECURSIVE SerialRun(_, _, _, _)
SerialRun(rows, entries, order, k) ==
    IF k > Len(entries) THEN rows
    ELSE SerialRun(SerialStep(rows, entries[order[k]]), entries, order,
                   k + 1)

\* The balances that running the answered requests one after another, in
\* some order, can leave.
SerialBalances ==
    {Persisted(SerialRun(initial, log, order, 1)) :
        order \in Permutations(1..Len(log))}

\* C3: when ledger requests on the address overlap, the final persisted
\* balance is one that running the same requests one after another in
\* some order leaves: no request's delta is lost.
C3_Serializable ==
    (/\ Quiescent
     /\ Len(log) >= 2
     /\ \A i \in 1..Len(log) : log[i].status = 200)
        => Persisted(wallet_balances) \in SerialBalances

\* The balance the ledger is to read for the request answered last: the
\* balance of the row its handler found, 0 if it found none.
ReadBalance == IF resp.rows > 0 THEN resp.read ELSE 0

InsufficientReply ==
    /\ resp.status = 400
    /\ resp.message = "Insufficient balance for withdrawal"
    /\ resp.currentBalance = Str(ReadBalance)
    /\ resp.requestedAmount = Str(resp.amount)

\* C4: an XP send whose amount exceeds the current balance fails with the
\* insufficient-balance error, which reports the current balance and the
\* requested amount, and mutates nothing: no balance row is written and
\* no Transaction record is created.
C4_OverdraftRejected ==
    (resp.ledger /\ resp.op = "send" /\ Less(ReadBalance, resp.amount))
        => (InsufficientReply /\ ~resp.wrote /\ resp.tx = 0)

\* C5: the ledger reads the current balance of an address as 0 when no
\* balance row exists, for a send as for a deposit.
C5_NoRowReadsZero ==
    /\ (resp.ledger /\ resp.rows = 0) => resp.read = 0
    /\ \A f \in Suspended :
        (f.pc \in {"send_insert", "send_update", "deposit_write",
                   "deposit_insert"} /\ f.local.rows = 0)
            => f.local.currentBalance = 0

\* C6: once a ledger request has returned, the balance has changed if and
\* only if the request left one Transaction record, and the record
\* carries the amount of the change, its direction, the counterpart
\* address and a status.
C6_ChangeHasRecord ==
    resp.ledger =>
        /\ (resp.delta # 0) <=> (resp.tx # 0)
        /\ resp.tx # 0 =>
            LET t == transactions[resp.tx]
            IN /\ t.status = "completed"
               /\ t.transactionType =
                    (IF resp.op = "deposit" THEN "receive" ELSE "send")
               /\ resp.delta =
                    (IF resp.op = "deposit" THEN t.amount
                     ELSE Minus(0, t.amount))
               /\ (IF resp.op = "deposit" THEN t.fromAddress
                   ELSE t.toAddress) # Missing

\* The steps of the balance ledger that write the balance row.
LedgerWrite ==
    \E f \in Suspended :
        \/ f.pc = "send_update" /\ SendUpdate(f)
        \/ f.pc = "deposit_write" /\ DepositWrite(f)

\* C7: a wallet_balances row is mutated only by the ledger's own writes
\* (the UPDATE of an XP send, the UPDATE or INSERT of a deposit); every
\* other step, in particular POST /api/xphere/update-balance and
\* GET /api/xphere/balance/:address, leaves all rows unchanged.
C7_OnlyLedgerWrites ==
    [][wallet_balances' # wallet_balances => LedgerWrite]_vars

\* C7 witness: update-balance has been answered with success for the
\* wallet address and the balance row holds another value than it gave.
C7_Witness ==
    /\ currentBalance # Undef
    /\ resp.status = 200 /\ resp.newBalance = toString(currentBalance)
    /\ AddressTaken(wallet_balances, WalletAddress)
    /\ Persisted(wallet_balances) # parseFloat(currentBalance)

\* No two rows of wallet_balances have the same address.
UniqueAddresses ==
    \A i, j \in 1..Len(wallet_balances) :
        wallet_balances[i].address = wallet_balances[j].address => i = j

\* C8: a balance row is created lazily on the first credit: the only step
\* that adds a row is the write of a deposit that found no row, the row
\* gets the deposited amount as balance, a later deposit never adds a
\* second row for the address, and no step of a send adds a row.
C8_LazyRow ==
    /\ [](UniqueAddresses)
    /\ [][Len(wallet_balances') # Len(wallet_balances) =>
            \E f \in Suspended :
                /\ f.pc = "deposit_write"
                /\ DepositWrite(f)
                /\ ~AddressTaken(wallet_balances, WalletAddress)
                /\ wallet_balances' = Append(wallet_balances,
                     WalletRow(WalletAddress, parseFloat(f.body.amount),
                               f.body.assetType, now'))]_vars

\* C8 witness: starting with no row, two deposits have succeeded and the
\* address has one row, holding their sum.
C8_Witness ==
    /\ initial = <<>>
    /\ Len(log) = 2
    /\ \A i \in 1..Len(log) : log[i].op = "deposit" /\ log[i].status = 200
    /\ Len(wallet_balances) = 1
    /\ Persisted(wallet_balances) = Plus(log[1].amount, log[2].amount)

\* C9: process(id, approve) on a pending refund sets its status to
\* approved, process(id, reject) sets it to rejected, and both set
\* processedAt.
C9_ProcessPending ==
    [][\A f \in Suspended :
        (f.pc = "process_update" /\ ProcessUpdate(f)) =>
            \A i \in 1..Len(tax_refunds) :
                (/\ tax_refunds[i].id = f.body.id
                 /\ tax_refunds[i].status = "pending"
                 /\ f.body.action \in {"approve", "reject"})
                    => /\ tax_refunds'[i].status =
                            (IF f.body.action = "approve" THEN "approved"
                             ELSE "rejected")
                       /\ tax_refunds'[i].processedAt # Null]_vars

\* C9 witness: the refund that was pending at start-up has been approved
\* and carries a processedAt.
C9_Witness ==
    \E i \in 1..Len(tax_refunds) :
        /\ tax_refunds[i].createdAt = 0
        /\ tax_refunds[i].status = "approved"
        /\ tax_refunds[i].processedAt # Null

\* C10: a refund transitions at most once: no step changes the status or
\* the processedAt of a refund that is not pending.
C10_TransitionsOnce ==
    [][\A i \in 1..Len(tax_refunds) :
        tax_refunds[i].status # "pending"
            => /\ tax_refunds'[i].status = tax_refunds[i].status
               /\ tax_refunds'[i].processedAt = tax_refunds[i].processedAt]_vars

\* C11: process called with an id that matches no stored refund is
\* answered with a failure (a status of 400 or more), not with a success
\* response, and changes no refund.
C11_UnknownIdNotFound ==
    [][\A f \in Suspended :
        (/\ f.pc = "process_update"
         /\ ProcessUpdate(f)
         /\ \A i \in 1..Len(tax_refunds) : tax_refunds[i].id # f.body.id)
            => /\ resp'.status >= 400
               /\ tax_refunds' = tax_refunds]_vars

\* C12: every refund is in status pending at the moment it is created,
\* whichever endpoint creates it and whatever the request body holds.
C12_CreatedPending ==
    [][\A i \in 1..Len(tax_refunds') :
        i > Len(tax_refunds) => tax_refunds'[i].status = "pending"]_vars

\* C13: a refund is in status completed only if it was approved in an
\* earlier state: none is created in completed and none moves to
\* completed from pending or rejected.
C13_CompletedFromApproved ==
    [][\A i \in 1..Len(tax_refunds') :
        tax_refunds'[i].status = "completed"
            => /\ i <= Len(tax_refunds)
               /\ tax_refunds[i].status \in {"approved", "completed"}]_vars

\* C14: the refund amount of a refund is fixed at creation, and process
\* changes only status and processedAt of the refund it addresses: the
\* other fields of that refund and every other refund stay as they were.
C14_ProcessFrame ==
    /\ [][\A i \in 1..Len(tax_refunds) :
            /\ i <= Len(tax_refunds')
            /\ tax_refunds'[i].refundAmount = tax_refunds[i].refundAmount]_vars
    /\ [][\A f \in Suspended :
            (f.pc = "process_update" /\ ProcessUpdate(f)) =>
                /\ Len(tax_refunds') = Len(tax_refunds)
                /\ \A i \in 1..Len(tax_refunds) :
                    IF tax_refunds[i].id = f.body.id
                    THEN tax_refunds'[i] =
                            [tax_refunds[i] EXCEPT
                                !.status = tax_refunds'[i].status,
                                !.processedAt = tax_refunds'[i].processedAt]
                    ELSE tax_refunds'[i] = tax_refunds[i]]_vars

\* C14 witness: of two refunds with different amounts the first has been
\* processed and the second is still pending and unprocessed.
C14_Witness ==
    /\ Len(tax_refunds) = 2
    /\ tax_refunds[1].status = "approved"
    /\ tax_refunds[1].processedAt # Null
    /\ tax_refunds[2].status = "pending"
    /\ tax_refunds[2].processedAt = Null
    /\ tax_refunds[1].refundAmount # tax_refunds[2].refundAmount
    /\ resp.op = "process"

\* The calculator ran for the request answered last, on a numeric gross
\* income.
Calculated ==
    /\ resp.op \in {"estimate", "submit"}
    /\ resp.status \in {200, 500}
    /\ ~NotANumber(resp.body.grossIncome)

\* C15: the calculator selects exactly one rate, from the gross income
\* and not from the taxable income, with inclusive upper bounds: 6% up
\* to 12,000,000, 15% up to 46,000,000, 24% up to 88,000,000, 35% up to
\* 150,000,000 and 38% above; a gross income of 100,000,000 with no
\* deduction gives 35% and a tax of 35,000,000.  Estimate and submit
\* select the same rate.
C15_RateFromGross ==
    Calculated =>
        LET gross == parseFloat(resp.body.grossIncome)
            rate == resp.tax.taxRate
        IN /\ rate \in {6, 15, 24, 35, 38}
           /\ rate = 6 <=> gross <= 12000000
           /\ rate = 15 <=> (12000000 < gross /\ gross <= 46000000)
           /\ rate = 24 <=> (46000000 < gross /\ gross <= 88000000)
           /\ rate = 35 <=> (88000000 < gross /\ gross <= 150000000)
           /\ rate = 38 <=> 150000000 < gross
           /\ (gross = 100000000 /\ NumberOrZero(resp.body.deductions) = 0)
                => resp.tax.calculatedTax = 35000000

\* C15 witness: submit has calculated, for a gross income in the second
\* bracket and a deduction that brings the taxable income into the first,
\* the rate of the second bracket.
C15_Witness ==
    /\ resp.op = "submit"
    /\ resp.status = 500
    /\ resp.body.grossIncome = Num(12000100)
    /\ resp.body.deductions = Num(2000000)
    /\ resp.tax.taxableIncome = 10000100
    /\ resp.tax.taxRate = 15

\* C16: for numeric inputs taxableIncome = max(0, grossIncome -
\* deductions), calculatedTax = taxableIncome * rate and the refund amount
\* = max(0, taxPaid - calculatedTax): the refund amount is never negative
\* and is 0 whenever calculatedTax >= taxPaid; (10,000,000; 1,000,000; 0)
\* gives a tax of 600,000 and a refund of 400,000.
C16_RefundFormula ==
    (Calculated /\ ~NotANumber(resp.body.taxPaid)
                /\ resp.body.deductions.t # "text") =>
        LET gross == parseFloat(resp.body.grossIncome)
            paid == parseFloat(resp.body.taxPaid)
            deduct == IF resp.body.deductions = Undef THEN 0
                      ELSE parseFloat(resp.body.deductions)
            tax == resp.tax
        IN /\ ~tax.nan /\ ~tax.amountNaN
           /\ tax.taxableIncome =
                (IF gross - deduct >= 0 THEN gross - deduct ELSE 0)
           /\ tax.taxableIncome % 100 = 0
           /\ tax.calculatedTax = (tax.taxableIncome \div 100) * tax.taxRate
           /\ tax.amount =
                (IF paid - tax.calculatedTax >= 0
                 THEN paid - tax.calculatedTax ELSE 0)
           /\ tax.amount >= 0
           /\ tax.calculatedTax >= paid => tax.amount = 0
           /\ (gross = 10000000 /\ paid = 1000000 /\ deduct = 0)
                => (tax.calculatedTax = 600000 /\ tax.amount = 400000)

\* C16 witness: an estimate for a deduction above the gross income and a
\* tax paid of 1,000,000 has given a taxable income of 0, a tax of 0 and
\* a refund of 1,000,000.
C16_Witness ==
    /\ resp.op = "estimate"
    /\ resp.status = 200
    /\ resp.body.grossIncome = Num(10000000)
    /\ resp.body.deductions = Num(20000000)
    /\ resp.body.taxPaid = Num(1000000)
    /\ resp.tax.taxableIncome = 0
    /\ resp.tax.calculatedTax = 0
    /\ resp.tax.amount = 1000000

\* C17: estimate fails when grossIncome, taxPaid or deductions is given
\* and is not a number, and fails for no other input: numeric values, 0
\* included, are accepted.
C17_EstimateRejectsNonNumeric ==
    resp.op = "estimate" =>
        LET inputs == {resp.body.grossIncome, resp.body.taxPaid,
                       resp.body.deductions}
        IN /\ Text \in inputs => resp.status >= 400
           /\ (\A x \in inputs : x.t \in {"number", "string"})
                => resp.status = 200

\* C18: estimate has no side effects: the step that answers an estimate
\* creates or changes no refund, no transaction and no balance row,
\* whatever its input.
C18_EstimateNoSideEffects ==
    [][(resp'.op = "estimate" /\ started' # started)
        => UNCHANGED <<wallet_balances, transactions, tax_refunds>>]_vars

\* C18 witness: an estimate with a refund above 0 has been answered and
\* the refund stored at start-up is the only one, as it was.
C18_Witness ==
    /\ resp.op = "estimate"
    /\ resp.status = 200
    /\ resp.tax.amount > 0
    /\ tax_refunds = <<RefundRow(1, AuthUserId, 1, "pending", 0)>>

\* C19: a transaction record is immutable once created except for its
\* status: no step changes the amount, fromAddress, toAddress, assetType,
\* userId or txHash of an existing record, and none removes a record.
C19_RecordImmutable ==
    [][\A i \in 1..Len(transactions) :
        /\ i <= Len(transactions')
        /\ transactions'[i] =
             [transactions[i] EXCEPT !.status = transactions'[i].status]]_vars

\* C19 witness: the timer of a wallet send has completed the record the
\* send created, next to a record that is still pending.
C19_Witness ==
    /\ Len(transactions) = 2
    /\ transactions[1].status = "pending"
    /\ transactions[2].status = "completed"
    /\ Less(0, transactions[2].amount)
    /\ resp.op = "wallet_send"
    /\ resp.tx = 2
    /\ handlers = EmptyBag

\* No two stored transactions have the same txHash.
UniqueHashes ==
    \A i, j \in 1..Len(transactions) :
        transactions[i].txHash = transactions[j].txHash => i = j

\* The hash of the record handler f is about to insert: the one of its
\* body where the body gives one, else the one it drew.
InsertHash(f) ==
    IF f.pc = "send_other" THEN f.body.txHash ELSE f.local.txHash

\* C20: recording a transaction whose txHash is that of a stored
\* transaction fails, with an error response, and leaves the stored
\* records unchanged; no two stored transactions ever share a txHash.
C20_UniqueTxHash ==
    /\ [](UniqueHashes)
    /\ [][\A f \in Suspended :
            (/\ f.pc \in {"send_other", "send_insert", "deposit_insert"}
             /\ HashTaken(transactions, InsertHash(f))
             /\ (SendOther(f) \/ SendInsert(f) \/ DepositInsert(f)))
                => /\ transactions' = transactions
                   /\ resp'.status >= 400]_vars

\* C20 witness: a send that gave the txHash of the stored transaction
\* has been refused and the stored transaction is the only one.
C20_Witness ==
    /\ resp.op = "send"
    /\ resp.status = 400
    /\ resp.message = "Payment failed"
    /\ resp.tx = 0
    /\ Len(transactions) = 1
    /\ transactions[1].transactionType = "send"
    /\ transactions[1].assetType = "BTC"

\* C21: every stored transaction has an amount above 0: each endpoint
\* that records a transaction refuses an amount of 0 or below before it
\* records.
C21_AmountPositive ==
    \A i \in 1..Len(transactions) : Less(0, transactions[i].amount)

\* C22: the history of a user holds exactly the transactions of that
\* user, each once, most recent first: of two transactions returned, the
\* one created later comes earlier.
C22_HistoryMostRecentFirst ==
    (resp.op = "history" /\ resp.status = 200) =>
        /\ {resp.list[j] : j \in 1..Len(resp.list)} =
             {i \in 1..Len(transactions) :
                transactions[i].userId = resp.userId}
        /\ \A j, k \in 1..Len(resp.list) :
             j < k => resp.list[j] > resp.list[k]

\* C23: a ledger operation mutates exactly one address: no step changes
\* or removes the balance row of an address other than the wallet
\* address that sends and is credited, in particular not the row of a
\* send's toAddress, and no step adds a row for another address.
C23_OneAddress ==
    [][/\ \A i \in 1..Len(wallet_balances) :
            wallet_balances[i].address # WalletAddress
                => /\ i <= Len(wallet_balances')
                   /\ wallet_balances'[i] = wallet_balances[i]
       /\ \A i \in 1..Len(wallet_balances') :
            i > Len(wallet_balances)
                => wallet_balances'[i].address = WalletAddress]_vars

\* C23 witness: next to the row of the toAddress, a deposit has created
\* the wallet row and a send to the toAddress has debited it; the row of
\* the toAddress is as it was at start-up.
C23_Witness ==
    /\ initial = <<WalletRow(OtherAddress, 1, "XP", 0)>>
    /\ Len(wallet_balances) = 2
    /\ wallet_balances[1] = initial[1]
    /\ wallet_balances[2].address = WalletAddress
    /\ resp.op = "send" /\ resp.status = 200 /\ resp.wrote
    /\ Less(resp.delta, 0)

\* Lowercase hexadecimal text prefixed with 0x.
IsHexText(text) ==
    /\ Len(text) >= 2
    /\ text[1] = "0" /\ text[2] = "x"
    /\ \A i \in 3..Len(text) : \E d \in 1..16 : text[i] = HexDigits[d]

\* C24: every hash the system generates is lowercase hexadecimal text
\* prefixed with 0x, and any two hashes generated one after the other,
\* at the same site or at different ones, have the same length.
C24_HashFormat ==
    [][resp'.op \in HashSites
        => /\ IsHexText(resp'.txHash)
           /\ resp.op \in HashSites
                => Len(resp'.txHash) = Len(resp.txHash)]_vars

\* The total amount of the completed transactions of a type that name
\* the wallet address as sender (send) or as receiver (receive).
RECURSIVE CompletedTotal(_, _)
CompletedTotal(rows, type) ==
    IF Len(rows) = 0 THEN 0
    ELSE Plus(IF /\ Head(rows).status = "completed"
                 /\ Head(rows).transactionType = type
                 /\ (IF type = "send" THEN Head(rows).fromAddress
                     ELSE Head(rows).toAddress) = WalletAddress
              THEN Head(rows).amount ELSE 0,
              CompletedTotal(Tail(rows), type))

\* C25: funds that were never deposited cannot be spent: in every
\* reachable state the total of the completed sends from the wallet
\* address is at most its initial persisted balance (0 without a row)
\* plus the total of the completed receives credited to it.
C25_NoSpendWithoutDeposit ==
    LessEq(CompletedTotal(transactions, "send"),
           Plus(Persisted(initial), CompletedTotal(transactions, "receive")))

\* C26: an XP send whose amount equals the balance read from the row of
\* the wallet address is not refused by the sufficiency check, and when
\* it has answered with success the persisted balance is 0; the check
\* refuses only an amount strictly greater than the balance read.
C26_ExactBalanceSend ==
    (resp.op = "send" /\ resp.ledger /\ resp.rows > 0) =>
        /\ InsufficientReply => Less(resp.read, resp.amount)
        /\ (resp.amount # NaN /\ resp.amount = resp.read) =>
              /\ ~InsufficientReply
              /\ (resp.status = 200 /\ Quiescent)
                    => Persisted(wallet_balances) = 0

\* C26 witness: the row held MaxAmount, a send of MaxAmount was answered
\* with success and the row now holds 0.
C26_Witness ==
    /\ Persisted(initial) = MaxAmount
    /\ resp.op = "send" /\ resp.ledger /\ resp.rows > 0
    /\ resp.status = 200 /\ Quiescent
    /\ resp.amount = MaxAmount /\ resp.read = MaxAmount
    /\ Len(log) = 1
    /\ Persisted(wallet_balances) = 0

\* C27: for every body that the submit handler does not refuse as
\* incomplete, the handler stores a refund, and the refund amount it
\* computed and stored is the amount the estimate handler returns for
\* the same grossIncome, taxPaid and deductions.
C27_SubmitStoresEstimate ==
    (resp.op = "submit" /\ resp.status # 400) =>
        /\ resp.status = 200
        /\ ~resp.tax.amountNaN
        /\ resp.tax.amount = Estimate(resp.body).amount
        /\ Len(tax_refunds) > 0
        /\ tax_refunds[Len(tax_refunds)].refundAmount
              = Estimate(resp.body).amount

\* The timer of the wallet send that created record i is set.
TimerSet(i) ==
    \E f \in Suspended : f.pc = "wallet_timer" /\ f.local.tx = i

\* C28: a transaction created by POST /api/wallet/send starts pending;
\* once its timer is set and the callback is run, the transaction
\* eventually is completed; a completed transaction never is pending
\* again.
C28_PendingThenCompleted ==
    /\ [][\A i \in 1..Len(transactions') :
            /\ (i > Len(transactions) /\ TimerSet(i)')
                  => transactions'[i].status = "pending"
            /\ (i <= Len(transactions)
                /\ transactions[i].status = "completed")
                  => transactions'[i].status = "completed"]_vars
    /\ \A i \in 1..(NumReqs + 1) :
          TimerSet(i) ~> (/\ i <= Len(transactions)
                          /\ transactions[i].status = "completed")

\* C28 witness: the only record was created by a wallet send, its timer
\* has fired and the record is completed.
C28_Witness ==
    /\ Len(transactions) = 1
    /\ transactions[1].status = "completed"
    /\ transactions[1].transactionType = "send"
    /\ resp.op = "wallet_send" /\ resp.status = 200 /\ resp.tx = 1
    /\ ~TimerSet(1)

\* C29: processing sets a refund to approved only when the action is
\* exactly 'approve', and to rejected for every other action, a missing
\* or unrecognised one included; after the call the refund it names is
\* approved or rejected.
C29_ApproveOnlyOnApprove ==
    [][\A f \in Suspended :
        (f.pc = "process_update" /\ ProcessUpdate(f)) =>
            \A i \in 1..Len(tax_refunds) :
                tax_refunds[i].id = f.body.id =>
                    /\ tax_refunds'[i].status \in {"approved", "rejected"}
                    /\ tax_refunds'[i].status = "approved"
                          <=> f.body.action = "approve"]_vars

\* C29 witness: the refund of start-up has been processed with the
\* unrecognised action 'APPROVE' and is rejected.
C29_Witness ==
    /\ resp.op = "process" /\ resp.status = 200
    /\ resp.action = "APPROVE"
    /\ Len(tax_refunds) = 1
    /\ tax_refunds[1].status = "rejected"
    /\ tax_refunds[1].processedAt = now
    /\ now = 1
    /\ Quiescent

\* The attempts of the answered proxy request went through its endpoints
\* in list order, one attempt per endpoint.
InListOrder ==
    /\ Len(resp.list) <= Len(resp.endpoints)
    /\ \A j \in 1..Len(resp.list) :
          resp.list[j].endpoint = resp.endpoints[j]

\* C30 as stated: the proxy tries the endpoints in list order, one at a
\* time; it answers with the response of the first endpoint that returns
\* an OK response and contacts no later endpoint; it answers 503 if and
\* only if every endpoint threw or returned a non-OK response, after
\* exactly one attempt per endpoint.
C30_FirstOkAnswers ==
    resp.op = "rpc" =>
        /\ InListOrder
        /\ \A j \in 1..Len(resp.list) :
              resp.list[j].fetch = "ok"
                  => /\ j = Len(resp.list)
                     /\ resp.status = 200
                     /\ resp.result = resp.endpoints[j]
        /\ resp.status = 503
              <=> /\ Len(resp.list) = Len(resp.endpoints)
                  /\ \A j \in 1..Len(resp.list) :
                        resp.list[j].fetch \in {"status", "throw"}

\* C30 amended: the proxy tries the endpoints in list order, one at a
\* time; it answers with the body of the first endpoint that returns an
\* OK response whose body parses as JSON and contacts no later endpoint;
\* it answers 503 if and only if every endpoint threw, returned a non-OK
\* response or returned an OK response whose body did not parse, after
\* exactly one attempt per endpoint.
C30_FirstParsedOkAnswers ==
    resp.op = "rpc" =>
        /\ InListOrder
        /\ resp.status \in {200, 500, 503}
        /\ resp.status = 500 => Len(resp.list) = 0
        /\ \A j \in 1..Len(resp.list) :
              (resp.list[j].fetch = "ok" /\ resp.list[j].json = "parsed")
                  <=> (j = Len(resp.list) /\ resp.status = 200)
        /\ resp.status = 200
              => /\ Len(resp.list) > 0
                 /\ resp.result = resp.endpoints[Len(resp.list)]
        /\ resp.status = 503
              <=> /\ Len(resp.list) = Len(resp.endpoints)
                  /\ \A j \in 1..Len(resp.list) :
                        \/ resp.list[j].fetch \in {"status", "throw"}
                        \/ /\ resp.list[j].fetch = "ok"
                           /\ resp.list[j].json = "throws"

\* C30 witness: with the three fallback endpoints, the first threw, the
\* second answered OK with a body that is not JSON, and the body of the
\* third was sent.
C30_Witness ==
    /\ resp.op = "rpc" /\ resp.status = 200
    /\ Len(resp.endpoints) = 3
    /\ Len(resp.list) = 3
    /\ resp.list[1].fetch = "throw"
    /\ resp.list[2].fetch = "ok" /\ resp.list[2].json = "throws"
    /\ resp.list[3].fetch = "ok" /\ resp.list[3].json = "parsed"
    /\ resp.result = resp.endpoints[3]

====
